---------------------------- MODULE Spec2Model ----------------------------
(***************************************************************************)
(* A model of bitread.py of the BFAT project: the bitstream header and     *)
(* packet scan (find_config_packet), the frame address list                *)
(* (get_frame_list), the configuration frame decoder (parse_config_packet) *)
(* and their composition (get_high_bits).                                  *)
(*                                                                         *)
(* Strings are sequences of character codes (ord), a word is the list of   *)
(* 32 bits parse_word returns (index 1 here is Python's index 0, the       *)
(* LSB), and a file is the sequence of its bytes with a cursor counted in  *)
(* bytes from 0, as file.tell() counts it.                                 *)
(*                                                                         *)
(* The Python code raises no typed errors.  outcome records the way a run  *)
(* ends, named after the mechanism in the source:                          *)
(*   "returned"                   the function returned                    *)
(*   "TypeError"                  ord(bitfile.read(1)) at the end of the   *)
(*                                file: ord() of an empty bytes object     *)
(*   "IndexError"                 part_name[0] of an empty part name       *)
(*   "Exception_unrecognized"     raise Exception('Unrecognized bitstream  *)
(*                                format'), line 122                       *)
(*   "SystemExit_unsupported"     print + exit(), lines 356-357            *)
(*   "UnboundLocalError"          family read before assignment, line 217  *)
(*   "SystemExit_malformed"       print + exit(), lines 289-290            *)
(*   "SystemExit_incomplete"      print + exit(), lines 329-330            *)
(***************************************************************************)
EXTENDS Integers, Sequences, FiniteSets, TLC

VARIABLES
    pc,                   \* the statement the run is at
    outcome,              \* "running", or how the run ended
    \* find_config_packet
    bitfile,              \* the bytes of the opened bitstream
    pos,                  \* the file cursor, in bytes
    a_char,               \* the second header field
    part_name,            \* the part name read from the header
    type_2_fdri_write,    \* the pending flag of the packet scan
    packet_2_length,      \* None (-1) until the Type-2 header is accepted
    hdrs,                 \* history: cursor of every word read at line 154
    \* get_high_bits / get_frame_list
    part,                 \* the part identifier
    family,               \* "unset" until one of lines 207-214 assigns it
    opened,               \* whether part.json has been opened (line 217)
    descriptor,           \* the lines of part.json
    line_no,              \* number of lines of part.json consumed
    curr_scope,
    curr_addr,
    frames,               \* the frame list: <<hex string, 32 bits>> entries
    \* parse_config_packet
    payload,              \* the stream from the cursor on, in words
    words_read,           \* number of parse_word calls completed
    config_packet_length,
    frames_remaining,
    bits,                 \* the list of high bits
    prev_frame,
    frame_idx,            \* number of frames of the list processed
    \* parse_word, called on its own
    ret_word,             \* the list parse_word returned, <<>> before
    \* ll_sample_bits.write_bit_list
    ll_bits,              \* the caller's list
    ll_input,             \* history: ll_bits as it was at the call
    num_arg,              \* history: num_bits as it was at the call
    num_bits,
    fault_bits,
    bits_f                \* the text written to the .json file, None before

ctlVars   == <<pc, outcome>>
findVars  == <<bitfile, pos, a_char, part_name, type_2_fdri_write,
               packet_2_length, hdrs>>
frameVars == <<part, family, opened, descriptor, line_no, curr_scope,
               curr_addr, frames>>
parseVars == <<payload, words_read, config_packet_length, frames_remaining,
               bits, prev_frame, frame_idx>>
wordVars   == <<ret_word>>
sampleVars == <<ll_bits, ll_input, num_arg, num_bits, fault_bits, bits_f>>
otherVars  == <<wordVars, sampleVars>>
vars       == <<ctlVars, findVars, frameVars, parseVars, otherVars>>

---------------------------------------------------------------------------
(* Bounds of the model. *)

MaxFieldLen  == 2     \* longest second header field enumerated
MaxScanWords == 3     \* words after the sync word in a scanned stream

---------------------------------------------------------------------------
(* Helper functions of bitread.py. *)

BoundedSeq(S, n) == UNION {[1..k -> S] : k \in 0..n}

RECURSIVE Flatten(_)
Flatten(ss) == IF ss = <<>> THEN <<>> ELSE Head(ss) \o Flatten(Tail(ss))

\* [(byte >> i) & 1 for i in range(8)]
ByteBits(byte) == [i \in 1..8 |-> (byte \div 2^(i-1)) % 2]

\* A bug word_bits could have: the bytes are taken in the order read.
word_bits_NotReversed(word_ints) ==
    ByteBits(word_ints[1]) \o ByteBits(word_ints[2]) \o
    ByteBits(word_ints[3]) \o ByteBits(word_ints[4])

\* The list of 32 bits parse_word builds from the 4 bytes it read, in the
\* order read: the bytes reversed, each byte LSB first.
word_bits(word_ints) ==
    ByteBits(word_ints[4]) \o ByteBits(word_ints[3]) \o
    ByteBits(word_ints[2]) \o ByteBits(word_ints[1])

RECURSIVE bits_to_int(_)
bits_to_int(binary) ==
    IF binary = <<>> THEN 0
    ELSE Head(binary) + 2 * bits_to_int(Tail(binary))

\* sum([b<<i for i, b in enumerate(word[lo:hi])])
FieldValue(word, lo, hi) == bits_to_int(SubSeq(word, lo + 1, hi))

\* The read of n bytes at cursor p fails when the file ends first: read(1)
\* returns b'' and ord() raises TypeError, the cursor being at the end.
CanRead(file, p, n) == p + n <= Len(file)

\* parse_word(bitfile) at cursor p.
parse_word(file, p) == word_bits(SubSeq(file, p + 1, p + 4))

\* read_bytes_ascii(bitfile) at cursor p: the field, and the cursor after.
read_bytes_ascii(file, p) ==
    IF ~CanRead(file, p, 2)
    THEN [ok |-> FALSE, field |-> <<>>, pos |-> Len(file)]
    ELSE LET two_bytes     == <<file[p + 1], file[p + 2]>>
             read_len_bits == ByteBits(two_bytes[2]) \o ByteBits(two_bytes[1])
             read_len      == bits_to_int(read_len_bits)
         IN  IF ~CanRead(file, p + 2, read_len)
             THEN [ok |-> FALSE, field |-> <<>>, pos |-> Len(file)]
             ELSE [ok    |-> TRUE,
                   field |-> SubSeq(file, p + 3, p + 2 + read_len),
                   pos   |-> p + 2 + read_len]

---------------------------------------------------------------------------
(* Values of the variables a specification does not use. *)

None == -1

IdleFind ==
    /\ bitfile = <<>> /\ pos = 0 /\ a_char = <<>> /\ part_name = <<>>
    /\ type_2_fdri_write = FALSE /\ packet_2_length = None /\ hdrs = <<>>

IdleFrames ==
    /\ part = <<>> /\ family = "unset" /\ opened = FALSE
    /\ descriptor = <<>> /\ line_no = 0 /\ curr_scope = 0
    /\ curr_addr = [i \in 1..32 |-> 0] /\ frames = <<>>

IdleParse ==
    /\ payload = [size |-> 0, hot |-> <<>>] /\ words_read = 0
    /\ config_packet_length = 0 /\ frames_remaining = 0
    /\ bits = <<>> /\ prev_frame = <<>> /\ frame_idx = 0

IdleOther ==
    /\ ret_word = <<>>
    /\ ll_bits = <<>> /\ ll_input = <<>> /\ num_arg = 0 /\ num_bits = 0
    /\ fault_bits = <<>> /\ bits_f = None

---------------------------------------------------------------------------
(* find_config_packet: the header fields, lines 116-132. *)

\* A length-prefixed field as it lies in the file: a 16-bit big-endian
\* count, then the bytes.
Field(s) == <<Len(s) \div 256, Len(s) % 256>> \o s

\* Headers: four fields and the separator byte, over a small alphabet, cut
\* at every length (a file may end anywhere).  97 is 'a', 98 'b', 55 '7',
\* 120 'x', 0 the terminator of the part name.
HeaderFiles ==
    UNION { { SubSeq(file, 1, n) : n \in 0..Len(file) } :
        file \in { Field(f1) \o Field(f2) \o Field(f3) \o <<98>> \o Field(f4) :
                   f1 \in {<<>>, <<15>>},
                   f2 \in BoundedSeq({97, 98}, MaxFieldLen),
                   f3 \in {<<>>, <<100>>},
                   f4 \in {<<>>, <<0>>, <<55, 0>>, <<55, 97, 0>>, <<120, 0>>} } }

InitHeader ==
    /\ pc = "field1" /\ outcome = "running"
    /\ bitfile \in HeaderFiles
    /\ pos = 0 /\ a_char = <<>> /\ part_name = <<>>
    /\ type_2_fdri_write = FALSE /\ packet_2_length = None /\ hdrs = <<>>
    /\ IdleFrames /\ IdleParse /\ IdleOther

Fail(how) == pc' = "done" /\ outcome' = how

\* Line 117: the first field is read and dropped.
ReadField1 ==
    /\ pc = "field1"
    /\ LET r == read_bytes_ascii(bitfile, pos)
       IN  /\ pos' = r.pos
           /\ IF r.ok THEN pc' = "field2" /\ UNCHANGED outcome
                      ELSE Fail("TypeError")
    /\ UNCHANGED <<bitfile, a_char, part_name, type_2_fdri_write,
                   packet_2_length, hdrs, frameVars, parseVars, otherVars>>

\* A bug NotLetterA could have: only the first character is compared.
NotLetterA_FirstCharOnly(field) == field = <<>> \/ field[1] # 97

\* if a_char != 'a'
NotLetterA(field) == field # <<97>>

\* Lines 120-122: the second field must be the letter 'a'.
ReadField2 ==
    /\ pc = "field2"
    /\ LET r == read_bytes_ascii(bitfile, pos)
       IN  /\ pos' = r.pos
           /\ a_char' = r.field
           /\ IF ~r.ok THEN Fail("TypeError")
              ELSE IF NotLetterA(r.field) THEN Fail("Exception_unrecognized")
              ELSE pc' = "field3" /\ UNCHANGED outcome
    /\ UNCHANGED <<bitfile, part_name, type_2_fdri_write,
                   packet_2_length, hdrs, frameVars, parseVars, otherVars>>

\* Line 125: the design name is read and dropped.
ReadField3 ==
    /\ pc = "field3"
    /\ LET r == read_bytes_ascii(bitfile, pos)
       IN  /\ pos' = r.pos
           /\ IF r.ok THEN pc' = "separator" /\ UNCHANGED outcome
                      ELSE Fail("TypeError")
    /\ UNCHANGED <<bitfile, a_char, part_name, type_2_fdri_write,
                   packet_2_length, hdrs, frameVars, parseVars, otherVars>>

\* Line 126: bitfile.read(1), without ord(): no failure at the end of file.
ReadSeparator ==
    /\ pc = "separator"
    /\ pos' = IF CanRead(bitfile, pos, 1) THEN pos + 1 ELSE pos
    /\ pc' = "part"
    /\ UNCHANGED <<outcome, bitfile, a_char, part_name, type_2_fdri_write,
                   packet_2_length, hdrs, frameVars, parseVars, otherVars>>

\* Lines 131-132: "xc" + part_name + "-1" when the name starts with '7'.
NormalizePart(name) ==
    IF name[1] = 55 THEN <<120, 99>> \o name \o <<45, 49>> ELSE name

\* Lines 129-132: the part name, without its last byte.
ReadPart ==
    /\ pc = "part"
    /\ LET r    == read_bytes_ascii(bitfile, pos)
           name == SubSeq(r.field, 1, Len(r.field) - 1)
       IN  /\ pos' = r.pos
           /\ IF ~r.ok THEN Fail("TypeError") /\ UNCHANGED part_name
              ELSE IF name = <<>> THEN Fail("IndexError") /\ UNCHANGED part_name
              ELSE /\ part_name' = NormalizePart(name)
                   /\ pc' = "sync" /\ UNCHANGED outcome
    /\ UNCHANGED <<bitfile, a_char, type_2_fdri_write,
                   packet_2_length, hdrs, frameVars, parseVars, otherVars>>

NextHeader ==
    \/ ReadField1
    \/ ReadField2
    \/ ReadField3
    \/ ReadSeparator
    \/ ReadPart

SpecHeader == InitHeader /\ [][NextHeader]_vars

---------------------------------------------------------------------------
(* The header claims. *)

\* The second field as it lies in the file, computed from the bytes: the
\* first field's 16-bit count says where it starts.
Field2Start == 2 + bitfile[1] * 256 + bitfile[2]
Field2End   == Field2Start + 2 + bitfile[Field2Start + 1] * 256
                               + bitfile[Field2Start + 2]
HasField2 ==
    /\ Len(bitfile) >= 2
    /\ Len(bitfile) >= Field2Start + 2
    /\ Len(bitfile) >= Field2End
Field2Bytes == SubSeq(bitfile, Field2Start + 3, Field2End)

\* C10: when the file holds a complete second field that is not exactly the
\* one character 'a', the run never gets past the read of that field: it
\* ends with the exception of line 122, the cursor at the first byte after
\* the second field, and no part name.
C10_SecondFieldMustBeA ==
    (HasField2 /\ Field2Bytes # <<97>>) =>
        /\ pc \in {"field1", "field2", "done"}
        /\ pos <= Field2End
        /\ part_name = <<>>
        /\ pc = "done" => /\ outcome = "Exception_unrecognized"
                          /\ pos = Field2End
                          /\ a_char = Field2Bytes

\* The run has failed on a second field "b" with bytes left unread.
C10_Witness ==
    /\ pc = "done" /\ outcome = "Exception_unrecognized"
    /\ a_char = <<98>>
    /\ pos < Len(bitfile)

---------------------------------------------------------------------------
(* find_config_packet: the packet scan, lines 148-178. *)

\* The bytes of the sync word 0xAA995566.
SyncBytes == <<170, 153, 85, 102>>

\* The words of the scanned streams, as the 4 bytes of the file:
\*   0x30004000  Type 1, write, FDRI (address 2), length 0
\*   0x30004001  Type 1, write, FDRI, length 1
\*   0x28004000  Type 1, read (opcode 1), FDRI, length 0
\*   0x30008000  Type 1, write, address 4, length 0
\*   0x34004000  Type 1, write, address 2 + 2^13, length 0
\*   0x30004800  Type 1, write, FDRI, length 0, reserved bit 11 set
\*   0x500000CA  Type 2, write, length 202
\*   0x44000100  Type 2, length 2^26 + 256
\*   0x90004000  top bits 100, the other fields those of 0x30004000
\*   0x20000000  Type 1 no-op
\*   0x20000002  Type 1 no-op, length 2
ScanWords ==
    { <<48, 0, 64, 0>>, <<48, 0, 64, 1>>, <<40, 0, 64, 0>>, <<48, 0, 128, 0>>,
      <<52, 0, 64, 0>>, <<48, 0, 72, 0>>, <<80, 0, 0, 202>>, <<68, 0, 1, 0>>,
      <<144, 0, 64, 0>>, <<32, 0, 0, 0>>, <<32, 0, 0, 2>> }

\* A stream may end in the middle of a word.
ScanTails == { <<>>, <<48, 0>> }

ScanFiles ==
    { SyncBytes \o Flatten(ws) \o tail :
        ws \in BoundedSeq(ScanWords, MaxScanWords), tail \in ScanTails }

\* The state after the sync word has been confirmed (line 146).
InitScan ==
    /\ pc = "scan" /\ outcome = "running"
    /\ bitfile \in ScanFiles
    /\ pos = Len(SyncBytes)
    /\ a_char = <<97>>
    /\ part_name = <<120, 99, 55, 97, 45, 49>>
    /\ type_2_fdri_write = FALSE /\ packet_2_length = None /\ hdrs = <<>>
    /\ IdleFrames /\ IdleParse /\ IdleOther

\* A bug IsType1 could have: the tag is taken to be the top bits 100.
IsType1_TopBits100(word) == SubSeq(word, 30, 32) = <<0, 0, 1>>

\* word[-3:] == [1, 0, 0]
IsType1(word) == SubSeq(word, 30, 32) = <<1, 0, 0>>

\* word[-3:] == [0, 1, 0]
IsType2(word) == SubSeq(word, 30, 32) = <<0, 1, 0>>

\* A bug AcceptsType2 could have: the pending flag is not tested.
AcceptsType2_AnyType2(word, pending) == IsType2(word)

\* Line 156: a Type-2 header is accepted only while the flag is set.
AcceptsType2(word, pending) == IsType2(word) /\ pending

packet_1_length(word) == FieldValue(word, 0, 11)
packet_1_addr(word)   == FieldValue(word, 13, 27)
packet_1_opcode(word) == FieldValue(word, 27, 29)

\* A bug IsFdriWrite could have: the length is not compared with 0.
IsFdriWrite_AnyLength(word) ==
    /\ FieldValue(word, 27, 29) = 2
    /\ FieldValue(word, 13, 27) = 2

\* Line 175.
IsFdriWrite(word) ==
    /\ packet_1_opcode(word) = 2
    /\ packet_1_addr(word) = 2
    /\ packet_1_length(word) = 0

\* A bug WordsAfterHeader could have: the first word after the accepted
\* Type-2 header is read too.
WordsAfterHeader_ReadsPayload(word, pending) ==
    IF AcceptsType2(word, pending) THEN 1
    ELSE IF IsType1(word) THEN packet_1_length(word)
    ELSE 0

\* A bug WordsAfterHeader could have: the payload of a Type-1 packet is
\* not read, so its words are taken for headers.
WordsAfterHeader_NoPayload(word, pending) == 0

\* The number of words one iteration reads after its header word: the
\* payload of a Type-1 packet (lines 170-171), nothing otherwise.
WordsAfterHeader(word, pending) ==
    IF AcceptsType2(word, pending) THEN 0
    ELSE IF IsType1(word) THEN packet_1_length(word)
    ELSE 0

\* One iteration of the loop of line 153, and the return of line 178 when
\* it is the last.
ScanStep ==
    /\ pc = "scan"
    /\ IF ~CanRead(bitfile, pos, 4)
       THEN /\ Fail("TypeError")
            /\ pos' = Len(bitfile)
            /\ UNCHANGED <<type_2_fdri_write, packet_2_length, hdrs>>
       ELSE LET word == parse_word(bitfile, pos)
                n    == WordsAfterHeader(word, type_2_fdri_write)
            IN  /\ hdrs' = Append(hdrs, pos)
                /\ IF ~CanRead(bitfile, pos + 4, 4 * n)
                   THEN /\ Fail("TypeError")
                        /\ pos' = Len(bitfile)
                        /\ type_2_fdri_write' = FALSE
                        /\ UNCHANGED packet_2_length
                   ELSE /\ pos' = pos + 4 + 4 * n
                        /\ IF AcceptsType2(word, type_2_fdri_write)
                           THEN /\ packet_2_length' = FieldValue(word, 0, 27)
                                /\ pc' = "done" /\ outcome' = "returned"
                                /\ UNCHANGED type_2_fdri_write
                           ELSE /\ type_2_fdri_write' =
                                       (IsType1(word) /\ IsFdriWrite(word))
                                /\ UNCHANGED <<pc, outcome, packet_2_length>>
    /\ UNCHANGED <<bitfile, a_char, part_name, frameVars, parseVars, otherVars>>

NextScan == ScanStep

SpecScan == InitScan /\ [][NextScan]_vars

---------------------------------------------------------------------------
(* The packet scan claims. *)

\* The 4 bytes of the file at cursor p, and the fields of the word they
\* make, computed from the bytes by arithmetic on the big-endian value.
BytesAt(p)    == SubSeq(bitfile, p + 1, p + 4)
TopBits(b)    == b[1] \div 32
OpcodeOf(b)   == (b[1] \div 8) % 4
Low27(b)      == (b[1] % 8) * 16777216 + b[2] * 65536 + b[3] * 256 + b[4]
AddressOf(b)  == (Low27(b) \div 8192) % 16384
Length11Of(b) == Low27(b) % 2048

\* C1: the scan returns only on a word with top bits 010 read as a header
\* right after a header word that is a Type-1 header (top bits 001) with
\* opcode 2, address 2 and length 0, and then returns bits [26:0] of the
\* Type-2 word; in every other state no length has been returned.
C1_FoundOnlyAfterFdriWrite ==
    IF outcome = "returned"
    THEN LET n == Len(hdrs)
         IN  /\ n >= 2
             /\ hdrs[n] = hdrs[n - 1] + 4
             /\ TopBits(BytesAt(hdrs[n])) = 2
             /\ TopBits(BytesAt(hdrs[n - 1])) = 1
             /\ OpcodeOf(BytesAt(hdrs[n - 1])) = 2
             /\ AddressOf(BytesAt(hdrs[n - 1])) = 2
             /\ Length11Of(BytesAt(hdrs[n - 1])) = 0
             /\ packet_2_length = Low27(BytesAt(hdrs[n]))
    ELSE packet_2_length = None

\* The scan has returned the length 202 of a Type-2 header that follows
\* the FDRI write header 0x30004000.
C1_Witness ==
    /\ outcome = "returned" /\ packet_2_length = 202
    /\ BytesAt(hdrs[Len(hdrs)] - 4) = <<48, 0, 64, 0>>

\* C2: when the scan returns, the cursor is at the first byte after the
\* accepted Type-2 header: that header is the last word read.
C2_CursorAfterType2Header ==
    outcome = "returned" =>
        /\ hdrs # <<>>
        /\ pos = hdrs[Len(hdrs)] + 4
        /\ pos <= Len(bitfile)
        /\ TopBits(BytesAt(pos - 4)) = 2
        /\ Low27(BytesAt(pos - 4)) = packet_2_length

\* The scan has returned with a word of the payload still unread.
C2_Witness == outcome = "returned" /\ CanRead(bitfile, pos, 4)

---------------------------------------------------------------------------
(* Frame addresses and their strings. *)

\* Python's str(n), n >= 0: the decimal digits as character codes.
RECURSIVE PyStr(_)
PyStr(n) ==
    IF n < 10 THEN <<48 + n>> ELSE PyStr(n \div 10) \o <<48 + (n % 10)>>

\* Python's hex(n), n >= 0: "0x" and the lowercase hexadecimal digits.
HexChar(d) == IF d < 10 THEN 48 + d ELSE 87 + d
RECURSIVE HexDigits(_)
HexDigits(n) ==
    IF n < 16 THEN <<HexChar(n)>>
    ELSE HexDigits(n \div 16) \o <<HexChar(n % 16)>>
PyHex(n) == <<48, 120>> \o HexDigits(n)

\* s.lstrip(chars)
RECURSIVE Lstrip(_, _)
Lstrip(s, chars) ==
    IF s # <<>> /\ Head(s) \in chars THEN Lstrip(Tail(s), chars) ELSE s

\* s.rjust(width, fill)
RECURSIVE Rjust(_, _, _)
Rjust(s, width, fill) ==
    IF Len(s) >= width THEN s ELSE Rjust(<<fill>> \o s, width, fill)

\* Line 261: hex(bits_to_int(curr_addr)).lstrip("0x").rjust(8, "0")
frame_addr_hex(addr) == Rjust(Lstrip(PyHex(bits_to_int(addr)), {48, 120}), 8, 48)

\* Line 262: an entry of the frame list, [frame_addr_hex, curr_addr.copy()].
FrameEntry(addr) == <<frame_addr_hex(addr), addr>>

\* The 32 address bits of a value below 2^26 (bits [31:26] are never set:
\* curr_addr starts as [0] * 32 and only indices 0..25 are assigned).
AddrBits(value) ==
    [i \in 1..32 |-> IF i <= 26 THEN (value \div 2^(i - 1)) % 2 ELSE 0]

RECURSIVE SortedSeqOf(_)
SortedSeqOf(S) ==
    IF S = {} THEN <<>>
    ELSE LET least == CHOOSE x \in S : \A y \in S : x <= y
         IN  <<least>> \o SortedSeqOf(S \ {least})

---------------------------------------------------------------------------
(* parse_config_packet, lines 276-332. *)

FRAME_LENGTH == 101

MaxFrames == 2        \* longest frame list given to parse_config_packet

\* The addresses the frame lists are made of: minor 0 and 1, column 1,
\* row 1, the bottom half, and block type 1, all other fields 0.
PoolAddresses == {0, 1, 128, 131072, 4194304, 8388608}

\* The frame lists: what get_frame_list returns, sorted ascending, each
\* address once.
ParseFrameLists ==
    { [i \in 1..Len(vs) |-> FrameEntry(AddrBits(vs[i]))] :
        vs \in { SortedSeqOf(S) :
                 S \in { T \in SUBSET PoolAddresses : Cardinality(T) <= MaxFrames } } }

\* The walk over n frames reads at most 3n - 2 slots of FRAME_LENGTH words.
MaxWalkSlots == 3 * MaxFrames - 2

\* The declared lengths: every multiple of FRAME_LENGTH up to one slot more
\* than the longest walk and its two dummy frames need, and some lengths
\* that are no multiple.
PacketLengths ==
    { FRAME_LENGTH * k : k \in 0..(MaxWalkSlots + 3) }
        \cup { 1, FRAME_LENGTH - 1, FRAME_LENGTH + 1 }

\* The stream from the cursor on: size words, all zero but the words at
\* the positions (counted in words from 0) of hot, given as their 4 bytes.
\* 0x80003001 has the bits 0, 12, 13 and 31 set.
HotWordMixed == <<128, 0, 48, 1>>
HotWordOnes  == <<255, 255, 255, 255>>
HotOffsets   == {0, 50, 100}
HotMaps ==
    { <<>> }
    \cup { [p \in {FRAME_LENGTH * s + o} |-> HotWordMixed] :
             s \in 0..(MaxWalkSlots - 1), o \in HotOffsets }
    \cup { [p \in { FRAME_LENGTH * s + o :
                    s \in 0..(MaxWalkSlots - 1), o \in HotOffsets } |-> w] :
             w \in {HotWordOnes, HotWordMixed} }

\* A stream that holds every word a walk can read, and two that end early.
StreamSizes == { 50, 2 * FRAME_LENGTH + 49, FRAME_LENGTH * (MaxWalkSlots + 3) }

InitParse ==
    /\ pc = "parse" /\ outcome = "running"
    /\ frames \in ParseFrameLists
    /\ config_packet_length \in PacketLengths
    /\ payload \in [size : StreamSizes, hot : HotMaps]
    /\ words_read = 0 /\ frames_remaining = 0 /\ bits = <<>>
    /\ prev_frame = <<>> /\ frame_idx = 0
    /\ part = <<>> /\ family = "unset" /\ opened = FALSE
    /\ descriptor = <<>> /\ line_no = 0 /\ curr_scope = 0
    /\ curr_addr = [i \in 1..32 |-> 0]
    /\ IdleFind /\ IdleOther

ZeroWord == [i \in 1..32 |-> 0]

\* parse_word(bitfile) at word position p of the stream.
WordAt(p) ==
    IF p \in DOMAIN payload.hot THEN word_bits(payload.hot[p]) ELSE ZeroWord

\* A bug LengthMalformed could have: only a length shorter than a frame
\* is refused.
LengthMalformed_OnlyShort(length) == length < FRAME_LENGTH

\* Line 288.
LengthMalformed(length) == length % FRAME_LENGTH # 0

\* Lines 283-298: the check of the length and the set-up of the walk.
ParseEntry ==
    /\ pc = "parse"
    /\ IF LengthMalformed(config_packet_length)
       THEN Fail("SystemExit_malformed")
            /\ UNCHANGED <<frames_remaining, bits, prev_frame>>
       ELSE /\ frames_remaining' = config_packet_length
            /\ bits' = <<>>
            /\ IF frames = <<>>
               THEN Fail("IndexError") /\ UNCHANGED prev_frame
               ELSE /\ prev_frame' = frames[1]
                    /\ pc' = "row"
                    /\ UNCHANGED outcome
    /\ UNCHANGED <<payload, words_read, config_packet_length, frame_idx,
                   frameVars, findVars, otherVars>>

\* A bug RowChanged could have: the whole address is compared.
RowChanged_WholeAddress(prev, frame) == prev[2] # frame[2]

\* Line 304: prev_frame[1][17:23] != frame[1][17:23]
RowChanged(prev, frame) == SubSeq(prev[2], 18, 23) # SubSeq(frame[2], 18, 23)

\* Lines 303-307: two frames of words are skipped when the row changes.
RowSkip ==
    /\ pc = "row"
    /\ LET frame == frames[frame_idx + 1]
       IN  IF RowChanged(prev_frame, frame)
           THEN /\ frames_remaining' = frames_remaining - FRAME_LENGTH * 2
                /\ IF words_read + FRAME_LENGTH * 2 <= payload.size
                   THEN /\ words_read' = words_read + FRAME_LENGTH * 2
                        /\ pc' = "words"
                        /\ UNCHANGED outcome
                   ELSE /\ words_read' = payload.size
                        /\ Fail("TypeError")
           ELSE /\ pc' = "words"
                /\ UNCHANGED <<outcome, frames_remaining, words_read>>
    /\ UNCHANGED <<payload, config_packet_length, bits, prev_frame, frame_idx,
                   frameVars, findVars, otherVars>>

\* Line 318.
in_clock_row_bits(word_offset, bit_offset) ==
    word_offset = 50 /\ bit_offset <= 12

\* Lines 321-323: f'bit_{frame[0]}_{word_offset_str}_{bit_offset_str}'
BitString(frame_hex, word_offset, bit_offset) ==
    <<98, 105, 116, 95>> \o frame_hex \o <<95>>
        \o Rjust(PyStr(word_offset), 3, 48) \o <<95>>
        \o Rjust(PyStr(bit_offset), 2, 48)

\* Lines 316-323: the strings appended for one word, from bit_offset on.
RECURSIVE WordHighBitsFrom(_, _, _, _)
WordHighBitsFrom(frame_hex, word_offset, word, bit_offset) ==
    IF bit_offset > 31 THEN <<>>
    ELSE (IF word[bit_offset + 1] = 1
             /\ ~in_clock_row_bits(word_offset, bit_offset)
          THEN <<BitString(frame_hex, word_offset, bit_offset)>>
          ELSE <<>>)
         \o WordHighBitsFrom(frame_hex, word_offset, word, bit_offset + 1)

\* A bug WordHighBits could have: the bits are walked from the MSB down.
RECURSIVE WordHighBitsDown(_, _, _, _)
WordHighBitsDown(frame_hex, word_offset, word, bit_offset) ==
    IF bit_offset < 0 THEN <<>>
    ELSE (IF word[bit_offset + 1] = 1
             /\ ~in_clock_row_bits(word_offset, bit_offset)
          THEN <<BitString(frame_hex, word_offset, bit_offset)>>
          ELSE <<>>)
         \o WordHighBitsDown(frame_hex, word_offset, word, bit_offset - 1)
WordHighBits_MsbFirst(frame_hex, word_offset, word) ==
    WordHighBitsDown(frame_hex, word_offset, word, 31)

\* A bug WordHighBits could have: the clock row bits are not left out.
RECURSIVE WordHighBitsAll(_, _, _, _)
WordHighBitsAll(frame_hex, word_offset, word, bit_offset) ==
    IF bit_offset > 31 THEN <<>>
    ELSE (IF word[bit_offset + 1] = 1
          THEN <<BitString(frame_hex, word_offset, bit_offset)>>
          ELSE <<>>)
         \o WordHighBitsAll(frame_hex, word_offset, word, bit_offset + 1)
WordHighBits_WithClockRow(frame_hex, word_offset, word) ==
    WordHighBitsAll(frame_hex, word_offset, word, 0)

\* Lines 316-323 for one word.  (A word of zeros appends nothing: the test
\* of line 320 fails for each of its bits.)
WordHighBits(frame_hex, word_offset, word) ==
    IF word = ZeroWord THEN <<>>
    ELSE WordHighBitsFrom(frame_hex, word_offset, word, 0)

\* Lines 310-323: the strings appended for the words lo .. hi - 1 of a
\* frame whose first word is at position start of the stream, in the order
\* of the word offsets (the range is halved to keep the evaluation shallow).
RECURSIVE FrameHighBits(_, _, _, _)
FrameHighBits(frame_hex, start, lo, hi) ==
    IF lo >= hi THEN <<>>
    ELSE IF hi = lo + 1
    THEN WordHighBits(frame_hex, lo, WordAt(start + lo))
    ELSE LET mid == (lo + hi) \div 2
         IN  FrameHighBits(frame_hex, start, lo, mid)
             \o FrameHighBits(frame_hex, start, mid, hi)

\* A bug WordsToRead could have: the walk stops at the end of the declared
\* payload.
WordsToRead_WithinDeclared(left, remaining) ==
    LET declared == IF remaining > 0 THEN remaining ELSE 0
        most     == IF left >= FRAME_LENGTH THEN FRAME_LENGTH ELSE left
    IN  IF declared < most THEN declared ELSE most

\* Line 310: range(FRAME_LENGTH) whatever frames_remaining is; the words
\* of a frame that parse_word can read with left words in the stream.
WordsToRead(left, remaining) ==
    IF left >= FRAME_LENGTH THEN FRAME_LENGTH ELSE left

\* Lines 309-325: the FRAME_LENGTH words of a frame.  frames_remaining is
\* decremented before each read, the failed one at the end of the stream
\* included.
FrameWords ==
    /\ pc = "words"
    /\ LET frame == frames[frame_idx + 1]
           left  == payload.size - words_read
           n     == WordsToRead(left, frames_remaining)
       IN  /\ bits' = bits \o FrameHighBits(frame[1], words_read, 0, n)
           /\ words_read' = words_read + n
           /\ IF n = FRAME_LENGTH
              THEN /\ frames_remaining' = frames_remaining - FRAME_LENGTH
                   /\ prev_frame' = frame
                   /\ frame_idx' = frame_idx + 1
                   /\ pc' = IF frame_idx + 1 < Len(frames) THEN "row" ELSE "check"
                   /\ UNCHANGED outcome
              ELSE /\ frames_remaining' = frames_remaining - (n + 1)
                   /\ Fail("TypeError")
                   /\ UNCHANGED <<prev_frame, frame_idx>>
    /\ UNCHANGED <<payload, config_packet_length, frameVars, findVars, otherVars>>

\* A bug PacketFullyParsed could have: words left over are accepted.
PacketFullyParsed_AtLeast(remaining) == remaining >= 2 * FRAME_LENGTH

\* Line 328.
PacketFullyParsed(remaining) == remaining = 2 * FRAME_LENGTH

\* Lines 327-332: the check of the words left, and the return of the bits.
FinalCheck ==
    /\ pc = "check"
    /\ pc' = "done"
    /\ outcome' = IF PacketFullyParsed(frames_remaining)
                  THEN "returned" ELSE "SystemExit_incomplete"
    /\ UNCHANGED <<parseVars, frameVars, findVars, otherVars>>

NextParse ==
    \/ ParseEntry
    \/ RowSkip
    \/ FrameWords
    \/ FinalCheck

SpecParse == InitParse /\ [][NextParse]_vars

---------------------------------------------------------------------------
(* The decoder claims.  The expected values are computed from the frame   *)
(* list and the bytes of the stream, by arithmetic on the address values. *)

HexDigitValue(c) == IF c >= 97 THEN c - 87 ELSE c - 48
RECURSIVE HexValue(_)
HexValue(s) ==
    IF s = <<>> THEN 0
    ELSE 16 * HexValue(SubSeq(s, 1, Len(s) - 1)) + HexDigitValue(s[Len(s)])
RECURSIVE DecValue(_)
DecValue(s) ==
    IF s = <<>> THEN 0
    ELSE 10 * DecValue(SubSeq(s, 1, Len(s) - 1)) + (s[Len(s)] - 48)

\* Bits [22:17] of a frame's address: the half bit and the row.
RowHalfOf(frame) == (HexValue(frame[1]) \div 131072) % 64

\* Frame i of the list (i > 1) lies in another row or half than frame i - 1.
RowDiffers(i) == i > 1 /\ RowHalfOf(frames[i]) # RowHalfOf(frames[i - 1])
RowChangesUpTo(i) == Cardinality({ j \in 2..i : RowDiffers(j) })

\* The position in the stream of the first word of frame i, and the number
\* of words the whole walk reads.
SlotStart(i) == FRAME_LENGTH * (i - 1) + 2 * FRAME_LENGTH * RowChangesUpTo(i)
WalkWords ==
    FRAME_LENGTH * (Len(frames) + 2 * RowChangesUpTo(Len(frames)))

\* C3: with a length that is no multiple of FRAME_LENGTH the run ends at
\* the check of line 288 (print + exit()): no word is ever read and no
\* bit ever appended.
C3_MalformedLengthReadsNothing ==
    config_packet_length % FRAME_LENGTH # 0 =>
        /\ pc \in {"parse", "done"}
        /\ words_read = 0
        /\ bits = <<>>
        /\ pc = "done" => outcome = "SystemExit_malformed"

\* A run with the length FRAME_LENGTH + 1, a frame list and a stream with
\* set bits has been refused.
C3_Witness ==
    /\ pc = "done" /\ outcome = "SystemExit_malformed"
    /\ config_packet_length = FRAME_LENGTH + 1
    /\ frames # <<>> /\ payload.hot # <<>> /\ payload.size > FRAME_LENGTH

\* C4 as claimed: a list is returned only for the length
\* 101 * (N + 2R + 2), with 2 * FRAME_LENGTH words remaining, and every
\* other multiple of 101 ends in the exit of lines 329-330.
C4_AsClaimed ==
    (pc = "done" /\ config_packet_length % FRAME_LENGTH = 0) =>
        /\ outcome = "returned" =>
              /\ frames_remaining = 2 * FRAME_LENGTH
              /\ config_packet_length = WalkWords + 2 * FRAME_LENGTH
              /\ config_packet_length - words_read = 2 * FRAME_LENGTH
        /\ config_packet_length # WalkWords + 2 * FRAME_LENGTH =>
              outcome = "SystemExit_incomplete"

\* C4, amended: for a multiple of 101 the run fails in parse_word
\* (TypeError at the end of the file) when the stream ends before the
\* 101 * (N + 2R) words of the walk; otherwise it returns exactly for the
\* length 101 * (N + 2R + 2) and ends in the exit of lines 329-330 for
\* every other length.  On return the words read are the declared length
\* less 2 * FRAME_LENGTH.  An empty frame list fails at frames[0].
C4_ReturnsOnlyWhenTwoFramesRemain ==
    (pc = "done" /\ config_packet_length % FRAME_LENGTH = 0) =>
        /\ outcome =
              IF frames = <<>> THEN "IndexError"
              ELSE IF payload.size < WalkWords THEN "TypeError"
              ELSE IF config_packet_length = WalkWords + 2 * FRAME_LENGTH
              THEN "returned"
              ELSE "SystemExit_incomplete"
        /\ outcome = "returned" =>
              /\ frames_remaining = 2 * FRAME_LENGTH
              /\ words_read = config_packet_length - 2 * FRAME_LENGTH

\* A list has been returned for two frames in different rows.
C4_Witness ==
    /\ outcome = "returned"
    /\ Len(frames) = 2 /\ RowDiffers(2)
    /\ config_packet_length = 6 * FRAME_LENGTH
    /\ bits # <<>>

\* Bit b of the word made of 4 bytes in the order read.
ByteBit(bytes, b) == (bytes[4 - (b \div 8)] \div 2^(b % 8)) % 2

\* The bits to be reported for the word at position p once it has been
\* read as a word of a frame: its set bits, less the bits 0..12 of word 50.
ExpectedAt(p) ==
    UNION { { <<frames[i][1], p - SlotStart(i), b>> :
                b \in { c \in 0..31 :
                          /\ ByteBit(payload.hot[p], c) = 1
                          /\ ~(p - SlotStart(i) = 50 /\ c <= 12) } } :
            i \in { j \in 1..Len(frames) :
                      SlotStart(j) <= p /\ p < SlotStart(j) + FRAME_LENGTH } }
ExpectedBits ==
    UNION { ExpectedAt(p) : p \in { q \in DOMAIN payload.hot : q < words_read } }

\* An appended string, read back: "bit_", 8 characters of address, "_",
\* 3 digits of word offset, "_", 2 digits of bit offset.
WellFormedBit(s) ==
    /\ Len(s) = 19
    /\ SubSeq(s, 1, 4) = <<98, 105, 116, 95>>
    /\ s[13] = 95 /\ s[17] = 95
DecodedBit(s) ==
    <<SubSeq(s, 5, 12), DecValue(SubSeq(s, 14, 16)), DecValue(SubSeq(s, 18, 19))>>

\* C5: at every point of the walk the strings appended are, each once,
\* those of the set bits of the words read as words of a frame, with the
\* frame's address, the word offset and the bit offset, but for the bits
\* 0..12 of word 50; nothing is appended for a bit that is 0 or for a word
\* read by the skip at a row boundary.
C5_ExactlyTheHighBits ==
    /\ \A k \in 1..Len(bits) : WellFormedBit(bits[k])
    /\ { DecodedBit(bits[k]) : k \in 1..Len(bits) } = ExpectedBits
    /\ Len(bits) = Cardinality(ExpectedBits)

\* Two frames in different rows have been decoded from a stream whose
\* words 0, 50 and 100 of every slot are all ones: 32 + 19 + 32 strings
\* for each frame.
C5_Witness ==
    /\ outcome = "returned"
    /\ Len(frames) = 2 /\ RowDiffers(2)
    /\ 50 \in DOMAIN payload.hot /\ payload.hot[50] = HotWordOnes
    /\ 2 * FRAME_LENGTH \in DOMAIN payload.hot
    /\ Len(bits) = 2 * 83

\* C6: the step from the head of the loop to the words of frame i reads
\* and drops 2 * FRAME_LENGTH words, and takes as many from
\* frames_remaining, when the bits [22:17] of frame i differ from those of
\* frame i - 1, and nothing otherwise (the first frame included); the
\* words of the frame are the FRAME_LENGTH words read next.
C6_RowBoundarySkip ==
    [][ /\ (pc = "row" /\ pc' = "words") =>
            LET skipped == IF RowDiffers(frame_idx + 1)
                           THEN 2 * FRAME_LENGTH ELSE 0
            IN  /\ words_read' = words_read + skipped
                /\ frames_remaining' = frames_remaining - skipped
                /\ bits' = bits
        /\ (pc = "words" /\ pc' # "done") =>
                /\ words_read = SlotStart(frame_idx + 1)
                /\ words_read' = words_read + FRAME_LENGTH
                /\ frames_remaining' = frames_remaining - FRAME_LENGTH
      ]_vars

\* The words of the second frame are about to be read after a skip.
C6_Witness ==
    /\ pc = "words" /\ frame_idx = 1
    /\ words_read = 3 * FRAME_LENGTH
    /\ frames_remaining = config_packet_length - 3 * FRAME_LENGTH

IsPrefix(s, t) == Len(s) <= Len(t) /\ SubSeq(t, 1, Len(s)) = s

\* The place of an appended string in the walk: the index of its frame in
\* the list, its word offset, its bit offset.
FrameIndexOf(hex) == CHOOSE i \in 1..Len(frames) : frames[i][1] = hex
BitKey(s) ==
    LET d == DecodedBit(s) IN <<FrameIndexOf(d[1]), d[2], d[3]>>
KeyBefore(a, b) ==
    \/ a[1] < b[1]
    \/ a[1] = b[1] /\ a[2] < b[2]
    \/ a[1] = b[1] /\ a[2] = b[2] /\ a[3] < b[3]
OrderedBits(bs) ==
    \A k \in 1..(Len(bs) - 1) : KeyBefore(BitKey(bs[k]), BitKey(bs[k + 1]))

\* C7: every step only appends to bits, and the list is in the order of
\* (frame index, word offset, bit offset).
C7_AppendOnlyInWalkOrder ==
    [][ IsPrefix(bits, bits') /\ OrderedBits(bits') ]_vars

\* A list with strings of two frames and of several words has been
\* returned.
C7_Witness ==
    /\ outcome = "returned"
    /\ Len(bits) > 32
    /\ BitKey(bits[1])[1] # BitKey(bits[Len(bits)])[1]
    /\ BitKey(bits[1])[2] # BitKey(bits[33])[2]


---------------------------------------------------------------------------
(* get_frame_list, lines 181-273.  A line of part.json is the sequence of *)
(* its character codes, the newline included.                              *)

HALF_SCOPE        == 2
ROW_SCOPE         == 4
BUS_SCOPE         == 6
COL_SCOPE         == 8
FRAME_COUNT_SCOPE == 9

\* The string literals of lines 207-213, 222-240 and 353.
S_xc7        == <<120, 99, 55>>
S_xc7a       == <<120, 99, 55, 97>>
S_xc7k       == <<120, 99, 55, 107>>
S_xc7s       == <<120, 99, 55, 115>>
S_xc7z       == <<120, 99, 55, 122>>
S_top        == <<116, 111, 112>>
S_bottom     == <<98, 111, 116, 116, 111, 109>>
S_CLB_IO_CLK == <<67, 76, 66, 95, 73, 79, 95, 67, 76, 75>>
S_BLOCK_RAM  == <<66, 76, 79, 67, 75, 95, 82, 65, 77>>
S_CFG_CLB    == <<67, 70, 71, 95, 67, 76, 66>>

\* Python's `sub in s`.
Contains(s, sub) ==
    \E i \in 1..(Len(s) - Len(sub) + 1) : SubSeq(s, i, i + Len(sub) - 1) = sub

SetMin(S) == CHOOSE x \in S : \A y \in S : x <= y
SetMax(S) == CHOOSE x \in S : \A y \in S : x >= y

\* The places of the character c in s.
Positions(s, c) == { i \in 1..Len(s) : s[i] = c }

\* s.split(c)[1] for an s that holds c: what lies between the first c and
\* the second c, or the end of s.
SplitSecond(s, c) ==
    LET at    == Positions(s, c)
        first == SetMin(at)
        rest  == { i \in at : i > first }
        end   == IF rest = {} THEN Len(s) + 1 ELSE SetMin(rest)
    IN  SubSeq(s, first + 1, end - 1)

\* s.strip()
Whitespace == {9, 10, 11, 12, 13, 32}
Strip(s) ==
    LET keep == { i \in 1..Len(s) : s[i] \notin Whitespace }
    IN  IF keep = {} THEN <<>> ELSE SubSeq(s, SetMin(keep), SetMax(keep))

\* int(s): the value of the decimal digits of s, blanks around them
\* allowed; an s with any other character raises ValueError (the numbers of
\* part.json carry no sign and no underscore).
IsInt(s) ==
    LET d == Strip(s)
    IN  d # <<>> /\ \A i \in 1..Len(d) : d[i] \in 48..57
RECURSIVE DigitsValue(_)
DigitsValue(d) ==
    IF d = <<>> THEN 0
    ELSE 10 * DigitsValue(SubSeq(d, 1, Len(d) - 1)) + (d[Len(d)] - 48)
PyInt(s) == DigitsValue(Strip(s))

\* Lines 231-232, 247-248, 256-257:
\* for i, index in enumerate(range(lo, lo + width)):
\*     curr_addr[index] = (value >> i) & 1
SetBits(addr, lo, width, value) ==
    [i \in 1..32 |-> IF i > lo /\ i <= lo + width
                     THEN (value \div 2^(i - 1 - lo)) % 2
                     ELSE addr[i]]

\* Lines 237-241: curr_addr[23:26] = reversed(block_type)
Reversed(s) == [i \in 1..Len(s) |-> s[Len(s) + 1 - i]]
SetBus(addr, block_type) ==
    [i \in 1..32 |-> IF i > 23 /\ i <= 26
                     THEN Reversed(block_type)[i - 23] ELSE addr[i]]

SameAddr(addr) == [err |-> "none", addr |-> addr, new |-> <<>>]
LineError(addr, how) == [err |-> how, addr |-> addr, new |-> <<>>]

\* Lines 221-225.
HalfLine(addr, line) ==
    LET a1 == IF Contains(line, S_top) THEN [addr EXCEPT ![23] = 0] ELSE addr
        a2 == IF Contains(line, S_bottom) THEN [a1 EXCEPT ![23] = 1] ELSE a1
    IN  SameAddr(a2)

\* Lines 228-232 (lo = 17, width = 5) and 244-248 (lo = 7, width = 10).
NumberedLine(addr, line, lo, width) ==
    IF Positions(line, 34) = {} THEN SameAddr(addr)
    ELSE IF ~IsInt(SplitSecond(line, 34)) THEN LineError(addr, "ValueError")
    ELSE SameAddr(SetBits(addr, lo, width, PyInt(SplitSecond(line, 34))))

\* Lines 235-241.
BusLine(addr, line) ==
    LET a1 == IF Contains(line, S_CLB_IO_CLK)
              THEN SetBus(addr, <<0, 0, 0>>) ELSE addr
        a2 == IF Contains(line, S_BLOCK_RAM)
              THEN SetBus(a1, <<0, 0, 1>>) ELSE a1
        a3 == IF Contains(line, S_CFG_CLB)
              THEN SetBus(a2, <<0, 1, 0>>) ELSE a2
    IN  SameAddr(a3)

\* Lines 253-262: the frames of one column.
FrameCountLine(addr, line) ==
    IF Contains(line, <<125>>) THEN SameAddr(addr)
    ELSE IF Positions(Strip(line), 32) = {} THEN LineError(addr, "IndexError")
    ELSE IF ~IsInt(SplitSecond(Strip(line), 32))
    THEN LineError(addr, "ValueError")
    ELSE LET num_frames == PyInt(SplitSecond(Strip(line), 32))
         IN  [err  |-> "none",
              addr |-> IF num_frames = 0 THEN addr
                       ELSE SetBits(addr, 0, 7, num_frames - 1),
              new  |-> [k \in 1..num_frames |->
                          FrameEntry(SetBits(addr, 0, 7, k - 1))]]

\* Lines 221-262 for one line read at scope.
AfterLine(addr, scope, line) ==
    IF scope = HALF_SCOPE THEN HalfLine(addr, line)
    ELSE IF scope = ROW_SCOPE THEN NumberedLine(addr, line, 17, 5)
    ELSE IF scope = BUS_SCOPE THEN BusLine(addr, line)
    ELSE IF scope = COL_SCOPE THEN NumberedLine(addr, line, 7, 10)
    ELSE IF scope = FRAME_COUNT_SCOPE THEN FrameCountLine(addr, line)
    ELSE SameAddr(addr)

\* Lines 266-270.
ScopeAfter(scope, line) ==
    scope + (IF Contains(line, <<123>>) THEN 1 ELSE 0)
          - (IF Contains(line, <<125>>) THEN 1 ELSE 0)

\* Python's order of two lists of numbers (a str is one of code points).
SeqLess(a, b) ==
    LET n    == IF Len(a) < Len(b) THEN Len(a) ELSE Len(b)
        diff == { i \in 1..n : a[i] # b[i] }
    IN  IF diff = {} THEN Len(a) < Len(b)
        ELSE a[SetMin(diff)] < b[SetMin(diff)]

\* The order of two entries [frame_addr_hex, curr_addr] of the frame list.
EntryLess(x, y) == SeqLess(x[1], y[1]) \/ (x[1] = y[1] /\ SeqLess(x[2], y[2]))

\* Line 273: sorted(frames), a stable sort.  rank[i] is the place of fs[i].
sorted(fs) ==
    LET n    == Len(fs)
        rank == [i \in 1..n |->
                    1 + Cardinality({ j \in 1..n :
                          \/ EntryLess(fs[j], fs[i])
                          \/ j < i /\ ~EntryLess(fs[i], fs[j]) })]
    IN  [k \in 1..n |-> fs[CHOOSE i \in 1..n : rank[i] = k]]

\* A bug FamilyOf could have: a part of no known family is taken for artix7.
FamilyOf_DefaultArtix(p) ==
    IF Contains(p, S_xc7z) THEN "zynq7"
    ELSE IF Contains(p, S_xc7s) THEN "spartan7"
    ELSE IF Contains(p, S_xc7k) THEN "kintex7"
    ELSE "artix7"

\* Lines 207-214: four ifs in a row, none with an else.
FamilyOf(p) ==
    LET f1 == IF Contains(p, S_xc7a) THEN "artix7" ELSE "unset"
        f2 == IF Contains(p, S_xc7k) THEN "kintex7" ELSE f1
        f3 == IF Contains(p, S_xc7s) THEN "spartan7" ELSE f2
        f4 == IF Contains(p, S_xc7z) THEN "zynq7" ELSE f3
    IN  f4

\* Lines 202-217: the family of the part, and the open of its part.json.
\* The path is built first: with no family assigned the read of `family`
\* raises UnboundLocalError and open() is never called.  descriptor is the
\* content of the file at that path.
OpenDescriptor ==
    /\ pc = "family"
    /\ frames' = <<>>
    /\ curr_addr' = [i \in 1..32 |-> 0]
    /\ curr_scope' = 0
    /\ line_no' = 0
    /\ family' = FamilyOf(part)
    /\ IF FamilyOf(part) = "unset"
       THEN Fail("UnboundLocalError") /\ UNCHANGED opened
       ELSE /\ opened' = TRUE
            /\ pc' = IF descriptor = <<>> THEN "parse" ELSE "lines"
            /\ UNCHANGED outcome
    /\ UNCHANGED <<part, descriptor, parseVars, findVars, otherVars>>

\* Lines 219-273 for the next line of the file; after the last line the
\* sorted list is returned to line 360 of get_high_bits.
FrameLine ==
    /\ pc = "lines"
    /\ LET line == descriptor[line_no + 1]
           r    == AfterLine(curr_addr, curr_scope, line)
           all  == frames \o r.new
       IN  /\ line_no' = line_no + 1
           /\ IF r.err # "none"
              THEN /\ Fail(r.err)
                   /\ UNCHANGED <<curr_scope, curr_addr, frames>>
              ELSE /\ curr_addr' = r.addr
                   /\ curr_scope' = ScopeAfter(curr_scope, line)
                   /\ IF line_no + 1 = Len(descriptor)
                      THEN frames' = sorted(all) /\ pc' = "parse"
                      ELSE frames' = all /\ pc' = "lines"
                   /\ UNCHANGED outcome
    /\ UNCHANGED <<part, family, opened, descriptor, parseVars, findVars, otherVars>>


---------------------------------------------------------------------------
(* The files part.json given to get_frame_list: the tree of the clock     *)
(* regions as the JSON text is laid out, one key or brace per line, the   *)
(* indentation four blanks per level.                                      *)

MaxCount == 2         \* largest frame_count of the regular descriptors

\* One more frame than the 7 bits of the minor address count.
WideCount == 2^7 + 1

S_global_clock_regions  == <<103, 108, 111, 98, 97, 108, 95, 99, 108, 111, 99, 107, 95, 114, 101, 103, 105, 111, 110, 115>>
S_rows                  == <<114, 111, 119, 115>>
S_configuration_buses   == <<99, 111, 110, 102, 105, 103, 117, 114, 97, 116, 105, 111, 110, 95, 98, 117, 115, 101, 115>>
S_configuration_columns == <<99, 111, 110, 102, 105, 103, 117, 114, 97, 116, 105, 111, 110, 95, 99, 111, 108, 117, 109, 110, 115>>
S_frame_count           == <<102, 114, 97, 109, 101, 95, 99, 111, 117, 110, 116>>

Indent(depth) == [i \in 1..(4 * depth) |-> 32]
OpenLine(depth, key) ==
    Indent(depth) \o <<34>> \o key \o <<34, 58, 32, 123, 10>>
CloseLine(depth, more) ==
    Indent(depth) \o <<125>> \o (IF more THEN <<44>> ELSE <<>>) \o <<10>>
CountLine(depth, count) ==
    Indent(depth) \o <<34>> \o S_frame_count \o <<34, 58, 32>>
        \o PyStr(count) \o <<10>>

ColumnLines(cols, count) ==
    Flatten([c \in 1..Len(cols) |->
        <<OpenLine(8, PyStr(cols[c])), CountLine(9, count),
          CloseLine(8, c < Len(cols))>>])
BusLines(buses, cols, count) ==
    Flatten([b \in 1..Len(buses) |->
        <<OpenLine(6, buses[b]), OpenLine(7, S_configuration_columns)>>
        \o ColumnLines(cols, count)
        \o <<CloseLine(7, FALSE), CloseLine(6, b < Len(buses))>>])
RowLines(rows, buses, cols, count) ==
    Flatten([r \in 1..Len(rows) |->
        <<OpenLine(4, PyStr(rows[r])), OpenLine(5, S_configuration_buses)>>
        \o BusLines(buses, cols, count)
        \o <<CloseLine(5, FALSE), CloseLine(4, r < Len(rows))>>])
HalfLines(halves, rows, buses, cols, count) ==
    Flatten([h \in 1..Len(halves) |->
        <<OpenLine(2, halves[h]), OpenLine(3, S_rows)>>
        \o RowLines(rows, buses, cols, count)
        \o <<CloseLine(3, FALSE), CloseLine(2, h < Len(halves))>>])
Descriptor(halves, rows, buses, cols, count) ==
    <<<<123, 10>>, OpenLine(1, S_global_clock_regions)>>
    \o HalfLines(halves, rows, buses, cols, count)
    \o <<CloseLine(1, FALSE), <<125, 10>>>>

HalfOrders == { <<S_bottom, S_top>>, <<S_top, S_bottom>>, <<S_top>> }
RowOrders  == { <<0>>, <<0, 1>>, <<1, 0>> }
BusOrders  == { <<S_BLOCK_RAM, S_CLB_IO_CLK>>, <<S_CLB_IO_CLK>>,
                <<S_CFG_CLB, S_CLB_IO_CLK>> }
ColOrders  == { <<0>>, <<0, 1>>, <<10, 2>> }

RegularDescriptors ==
    { Descriptor(h, r, b, c, n) :
        h \in HalfOrders, r \in RowOrders, b \in BusOrders, c \in ColOrders,
        n \in 1..MaxCount }

\* A descriptor with more frames in a column than the minor address
\* counts, one with a row that is no number, and the empty file.
WideDescriptors ==
    { Descriptor(<<S_top>>, <<0>>, <<S_CLB_IO_CLK>>, <<0>>, WideCount) }
OddDescriptors ==
    { <<<<123, 10>>, OpenLine(1, S_global_clock_regions),
        OpenLine(2, S_top), OpenLine(3, S_rows), OpenLine(4, S_rows)>>,
      <<>> }

FrameListDescriptors ==
    RegularDescriptors \cup WideDescriptors \cup OddDescriptors

S_xc7a35t   == <<120, 99, 55, 97, 51, 53, 116, 99, 112, 103, 50, 51, 54, 45, 49>>
S_xc7k70t   == <<120, 99, 55, 107, 55, 48, 116, 102, 98, 103, 54, 55, 54, 45, 50>>
S_xc7s50    == <<120, 99, 55, 115, 53, 48, 99, 115, 103, 97, 51, 50, 52, 45, 49>>
S_xc7z010   == <<120, 99, 55, 122, 48, 49, 48, 99, 108, 103, 52, 48, 48, 45, 49>>
S_xc7vx485t == <<120, 99, 55, 118, 120, 52, 56, 53, 116, 102, 102, 103, 49, 55, 54, 49, 45, 50>>
S_xc7_only  == <<120, 99, 55, 45, 49>>
S_xc6slx4   == <<120, 99, 54, 115, 108, 120, 52>>
S_xcku040   == <<120, 99, 107, 117, 48, 52, 48, 45, 102, 102, 118, 97, 49, 49, 53, 54, 45, 50, 45, 101>>

InitFrames ==
    /\ pc = "family" /\ outcome = "running"
    /\ part = S_xc7a35t
    /\ descriptor \in FrameListDescriptors
    /\ family = "unset" /\ opened = FALSE
    /\ line_no = 0 /\ curr_scope = 0
    /\ curr_addr = [i \in 1..32 |-> 0] /\ frames = <<>>
    /\ IdleFind /\ IdleParse /\ IdleOther

NextFrames ==
    \/ OpenDescriptor
    \/ FrameLine

SpecFrames == InitFrames /\ [][NextFrames]_vars

\* The hex string a comes before the hex string b, character by character.
StrBefore(a, b) ==
    \E i \in 1..Len(b) :
        /\ i <= Len(a) + 1
        /\ SubSeq(a, 1, i - 1) = SubSeq(b, 1, i - 1)
        /\ (i = Len(a) + 1 \/ a[i] < b[i])

\* get_frame_list has returned its list.
FrameListReturned == pc = "parse" /\ opened /\ line_no = Len(descriptor)

\* C8: the returned list is strictly ascending by the hex string, so no
\* two entries share an address, and the order of the hex strings is the
\* order of the address values.
C8_StrictlySortedByHex ==
    FrameListReturned =>
        /\ \A k \in 1..(Len(frames) - 1) :
               StrBefore(frames[k][1], frames[k + 1][1])
        /\ \A i, j \in 1..Len(frames) :
               StrBefore(frames[i][1], frames[j][1])
                   <=> bits_to_int(frames[i][2]) < bits_to_int(frames[j][2])

\* What holds of every descriptor: ascending with repeats allowed.
FrameListAscending ==
    FrameListReturned =>
        /\ \A k \in 1..(Len(frames) - 1) :
               \/ StrBefore(frames[k][1], frames[k + 1][1])
               \/ frames[k] = frames[k + 1]
        /\ \A i, j \in 1..Len(frames) :
               StrBefore(frames[i][1], frames[j][1])
                   <=> bits_to_int(frames[i][2]) < bits_to_int(frames[j][2])

\* The frame list of a descriptor whose fields fit the address is strictly
\* ascending.
FrameListStrictWhenFieldsFit ==
    (FrameListReturned /\ descriptor \in RegularDescriptors) =>
        \A k \in 1..(Len(frames) - 1) :
            StrBefore(frames[k][1], frames[k + 1][1])


---------------------------------------------------------------------------
(* get_high_bits, lines 338-362, from the return of find_config_packet    *)
(* on: the part and the length it returned, the stream at the cursor it   *)
(* left.                                                                   *)

\* Lines 353-357.
Dispatch ==
    /\ pc = "dispatch"
    /\ IF Contains(part, S_xc7)
       THEN pc' = "family" /\ UNCHANGED outcome
       ELSE Fail("SystemExit_unsupported")
    /\ UNCHANGED <<frameVars, parseVars, findVars, otherVars>>

MainParts ==
    { S_xc7a35t, S_xc7k70t, S_xc7s50, S_xc7z010,
      S_xc7vx485t, S_xc7_only, S_xc6slx4, S_xcku040 }

\* A device of one frame, and one of two frames in the two halves.
MainDescriptors ==
    { Descriptor(<<S_top>>, <<0>>, <<S_CLB_IO_CLK>>, <<0>>, 1),
      Descriptor(<<S_bottom, S_top>>, <<0>>, <<S_CLB_IO_CLK>>, <<0>>, 1) }

MainLengths == { 3 * FRAME_LENGTH, 6 * FRAME_LENGTH, FRAME_LENGTH + 1 }

MainPayloads ==
    { [size |-> 6 * FRAME_LENGTH, hot |-> (50 :> HotWordOnes)],
      [size |-> 50, hot |-> <<>>] }

\* descriptor is the part.json the path of line 217 names.
InitMain ==
    /\ pc = "dispatch" /\ outcome = "running"
    /\ part \in MainParts
    /\ descriptor \in MainDescriptors
    /\ config_packet_length \in MainLengths
    /\ payload \in MainPayloads
    /\ family = "unset" /\ opened = FALSE
    /\ line_no = 0 /\ curr_scope = 0
    /\ curr_addr = [i \in 1..32 |-> 0] /\ frames = <<>>
    /\ words_read = 0 /\ frames_remaining = 0 /\ bits = <<>>
    /\ prev_frame = <<>> /\ frame_idx = 0
    /\ IdleFind /\ IdleOther

NextMain ==
    \/ Dispatch
    \/ OpenDescriptor
    \/ FrameLine
    \/ ParseEntry
    \/ RowSkip
    \/ FrameWords
    \/ FinalCheck

SpecMain == InitMain /\ [][NextMain]_vars

\* The part holds none of the four family codes.
LacksFamilyCode(p) ==
    \A code \in {S_xc7a, S_xc7k, S_xc7s, S_xc7z} : ~Contains(p, code)

\* How a run ends for a part of no known family: with the message and the
\* exit() of lines 356-357, or, for a name that holds "xc7", with the
\* UnboundLocalError that the read of `family` raises while line 217 builds
\* the path it would open.
UnsupportedDeviceOutcomes == {"SystemExit_unsupported", "UnboundLocalError"}

\* C9: for a part that holds none of xc7a, xc7k, xc7s, xc7z the run fails
\* as an unsupported device, and at no point of it has part.json been
\* opened, a line of it been read, a frame been built or a word of the
\* payload been read.
C9_UnsupportedPartFailsBeforeFrames ==
    LacksFamilyCode(part) =>
        /\ pc \in {"dispatch", "family", "done"}
        /\ pc = "done" => outcome \in UnsupportedDeviceOutcomes
        /\ ~opened /\ line_no = 0 /\ frames = <<>>
        /\ words_read = 0 /\ bits = <<>>

\* The run for a Virtex-7 part has failed in get_frame_list, with a
\* descriptor and a payload at hand.
C9_Witness ==
    /\ part = S_xc7vx485t
    /\ pc = "done" /\ outcome = "UnboundLocalError"
    /\ ~opened /\ descriptor # <<>> /\ payload.hot # <<>>

\* The run for a Spartan-6 part has been refused at line 357.
C9_WitnessNotSeries7 ==
    /\ part = S_xc6slx4
    /\ pc = "done" /\ outcome = "SystemExit_unsupported"


---------------------------------------------------------------------------
(* The packet scan as a run that goes on: the loop of line 153 takes its  *)
(* next iteration as long as it has not returned or failed.               *)

MaxLiveWords == 2     \* words after the sync word in these streams

LiveScanFiles ==
    { SyncBytes \o Flatten(ws) \o tail :
        ws \in BoundedSeq(ScanWords, MaxLiveWords), tail \in ScanTails }

InitScanLive ==
    /\ pc = "scan" /\ outcome = "running"
    /\ bitfile \in LiveScanFiles
    /\ pos = Len(SyncBytes)
    /\ a_char = <<97>>
    /\ part_name = <<120, 99, 55, 97, 45, 49>>
    /\ type_2_fdri_write = FALSE /\ packet_2_length = None /\ hdrs = <<>>
    /\ IdleFrames /\ IdleParse /\ IdleOther

SpecScanLive == InitScanLive /\ [][NextScan]_vars /\ WF_vars(ScanStep)

\* The header positions of the file, computed from its bytes: from the
\* first word after the sync word, a Type-1 header (top bits 001) of length
\* L is followed by the header L + 1 words on, any other word by the next
\* word.  Only whole words count.
RECURSIVE HeaderPositionsFrom(_)
HeaderPositionsFrom(p) ==
    IF p + 4 > Len(bitfile) THEN <<>>
    ELSE LET L == IF TopBits(BytesAt(p)) = 1
                  THEN Length11Of(BytesAt(p)) ELSE 0
         IN  <<p>> \o HeaderPositionsFrom(p + 4 * (L + 1))
HeaderPositions == HeaderPositionsFrom(4)

\* The word at cursor p is the header of an FDRI write of length 0.
IsFdriSetupAt(p) ==
    /\ TopBits(BytesAt(p)) = 1
    /\ OpcodeOf(BytesAt(p)) = 2
    /\ AddressOf(BytesAt(p)) = 2
    /\ Length11Of(BytesAt(p)) = 0

\* The header positions that hold such a header with a whole word of top
\* bits 010 next.
IdiomIndexes ==
    { k \in 1..Len(HeaderPositions) :
        /\ IsFdriSetupAt(HeaderPositions[k])
        /\ HeaderPositions[k] + 8 <= Len(bitfile)
        /\ TopBits(BytesAt(HeaderPositions[k] + 4)) = 2 }
HasIdiom == IdiomIndexes # {}

\* C11: on a stream without the idiom at its header positions the scan
\* comes to its end by the failed read at the end of the file (TypeError
\* in parse_word), and at no time has a length been returned.
C11_NotFoundOnExhaustion ==
    (~HasIdiom) =>
        /\ <>(pc = "done" /\ outcome = "TypeError")
        /\ [](packet_2_length = None /\ outcome # "returned")

\* A scan has failed at the end of the file inside the payload of a Type-1
\* packet of length 1, after a first header word.
C11_Witness ==
    /\ pc = "done" /\ outcome = "TypeError"
    /\ ~HasIdiom
    /\ Len(hdrs) = 2
    /\ TopBits(BytesAt(hdrs[2])) = 1 /\ Length11Of(BytesAt(hdrs[2])) = 1
    /\ Len(bitfile) < hdrs[2] + 8


---------------------------------------------------------------------------
(* find_config_packet: the search of the sync word, lines 134-146. *)

\* Line 135: SYNC_WORD = 2862175590 = 43673 * 2^16 + 21862 (0xAA99 and
\* 0x5566), kept as its high and its low 16 bits.
SYNC_WORD == <<43673, 21862>>

\* bits_to_int(word), as its high and its low 16 bits.
IntHalves(word) ==
    <<bits_to_int(SubSeq(word, 17, 32)), bits_to_int(SubSeq(word, 1, 16))>>

\* A bug IsSyncWord could have: only the upper half is compared.
IsSyncWord_HighHalfOnly(word) == IntHalves(word)[1] = SYNC_WORD[1]

\* Line 145: bits_to_int(parse_word(bitfile)) == SYNC_WORD
IsSyncWord(word) == IntHalves(word) = SYNC_WORD

\* One iteration of the loop of line 139: a byte is read; when it is 0xAA
\* the cursor is moved back over it and a word is read from there, which
\* leaves the cursor 4 bytes on, whether or not the word is the sync word.
SyncStep ==
    /\ pc = "sync"
    /\ IF ~CanRead(bitfile, pos, 1)
       THEN Fail("TypeError") /\ pos' = Len(bitfile)
       ELSE IF bitfile[pos + 1] # 170
       THEN pos' = pos + 1 /\ UNCHANGED <<pc, outcome>>
       ELSE IF ~CanRead(bitfile, pos, 4)
       THEN Fail("TypeError") /\ pos' = Len(bitfile)
       ELSE /\ pos' = pos + 4
            /\ IF IsSyncWord(parse_word(bitfile, pos))
               THEN pc' = "scan" /\ UNCHANGED outcome
               ELSE UNCHANGED <<pc, outcome>>
    /\ UNCHANGED <<bitfile, a_char, part_name, type_2_fdri_write,
                   packet_2_length, hdrs, frameVars, parseVars, otherVars>>

MaxSyncPieces == 3    \* pieces of the stream after the part name

\* The header of the files searched: the fields "", "a", "", a separator
\* and the part name "7a" with its terminator.
SyncHeader ==
    Field(<<>>) \o Field(<<97>>) \o Field(<<>>) \o <<98>> \o Field(<<55, 97, 0>>)

\* What follows the part name is made of these pieces: a byte that is not
\* 0xAA, the byte 0xAA, the first three bytes of the sync word, the sync
\* word, and the padding 0xFFFFFFFF.
SyncPieces ==
    { <<0>>, <<170>>, <<170, 153, 85>>, SyncBytes, <<255, 255, 255, 255>> }

SyncFiles ==
    { SyncHeader \o Flatten(ps) : ps \in BoundedSeq(SyncPieces, MaxSyncPieces) }

\* The state after the part name has been read (line 132).
InitSync ==
    /\ pc = "sync" /\ outcome = "running"
    /\ bitfile \in SyncFiles
    /\ pos = Len(SyncHeader)
    /\ a_char = <<97>>
    /\ part_name = <<120, 99, 55, 97, 45, 49>>
    /\ type_2_fdri_write = FALSE /\ packet_2_length = None /\ hdrs = <<>>
    /\ IdleFrames /\ IdleParse /\ IdleOther

NextSync == SyncStep

\* The loop takes its next iteration as long as it has not ended.
SpecSync == InitSync /\ [][NextSync]_vars /\ WF_vars(SyncStep)

\* C12: the search of the sync word ends; it ends either with the cursor
\* right after the 4 bytes AA 99 55 66, or by the failed read at the end of
\* the file (TypeError), the cursor at the end; the packet scan is entered
\* in the first case only.
C12_SyncScanTerminates ==
    /\ <>(pc # "sync")
    /\ [](pc \in {"sync", "scan", "done"})
    /\ [](pc = "scan" =>
            /\ outcome = "running"
            /\ pos >= Len(SyncHeader) + 4
            /\ SubSeq(bitfile, pos - 3, pos) = <<170, 153, 85, 102>>)
    /\ [](pc = "done" => outcome = "TypeError" /\ pos = Len(bitfile))

\* The sync word has been confirmed after bytes that are not part of it,
\* with bytes left in the file.
C12_Witness ==
    /\ pc = "scan"
    /\ pos > Len(SyncHeader) + 4
    /\ pos < Len(bitfile)

\* The places after the part name where the 4 bytes AA 99 55 66 lie.
SyncOffsets ==
    { p \in Len(SyncHeader)..(Len(bitfile) - 4) :
        SubSeq(bitfile, p + 1, p + 4) = <<170, 153, 85, 102>> }
FirstSyncOffset == CHOOSE p \in SyncOffsets : \A q \in SyncOffsets : p <= q

\* C14: when the file holds AA 99 55 66 after the part name, the search
\* ends with the sync word confirmed at its first occurrence, whatever its
\* alignment: a word that starts with 0xAA at p and is not the sync word
\* sends the search on from p + 1.
C14_SyncFoundAtAnyAlignment ==
    (SyncOffsets # {} /\ pc # "sync") =>
        /\ pc = "scan"
        /\ pos = FirstSyncOffset + 4


---------------------------------------------------------------------------
(* parse_word, lines 40-60, called once at the cursor of a file. *)

\* The call: four bytes are read, each turned into a number by ord(), which
\* raises TypeError on the b'' that read(1) gives at the end of the file.
ReadWord ==
    /\ pc = "word"
    /\ IF CanRead(bitfile, pos, 4)
       THEN /\ ret_word' = parse_word(bitfile, pos)
            /\ pos' = pos + 4
            /\ pc' = "done" /\ outcome' = "returned"
       ELSE /\ Fail("TypeError")
            /\ pos' = Len(bitfile)
            /\ UNCHANGED ret_word
    /\ UNCHANGED <<bitfile, a_char, part_name, type_2_fdri_write,
                   packet_2_length, hdrs, frameVars, parseVars, sampleVars>>

\* The files: three or four bytes, each of five values, after no byte or
\* one byte that has been read before the call.
WordByteValues == {0, 1, 128, 170, 255}
WordFiles ==
    { pre \o w : pre \in {<<>>, <<7>>},
                 w \in [1..4 -> WordByteValues] \cup [1..3 -> WordByteValues] }

InitWord ==
    /\ pc = "word" /\ outcome = "running"
    /\ bitfile \in WordFiles
    /\ pos = IF bitfile[1] = 7 THEN 1 ELSE 0
    /\ a_char = <<>> /\ part_name = <<>>
    /\ type_2_fdri_write = FALSE /\ packet_2_length = None /\ hdrs = <<>>
    /\ ret_word = <<>>
    /\ ll_bits = <<>> /\ ll_input = <<>> /\ num_arg = 0 /\ num_bits = 0
    /\ fault_bits = <<>> /\ bits_f = None
    /\ IdleFrames /\ IdleParse

NextWord == ReadWord

SpecWord == InitWord /\ [][NextWord]_vars

\* C13: a call that returns has moved the cursor on by 4 bytes and returns
\* 32 bits of which bit k is bit k mod 8 of the byte B(3 - k div 8) of the
\* four bytes B0..B3 read, so that its value is
\* B0 * 2^24 + B1 * 2^16 + B2 * 2^8 + B3 (stated for the two 16-bit halves,
\* and for the whole where it is below 2^31).
C13_ParseWordBitLayout ==
    [][ (pc = "word" /\ outcome' = "returned") =>
          LET B(i) == bitfile[pos + 1 + i]
          IN  /\ pos' = pos + 4
              /\ Len(ret_word') = 32
              /\ \A k \in 0..31 :
                    ret_word'[k + 1] = (B(3 - (k \div 8)) \div 2^(k % 8)) % 2
              /\ IntHalves(ret_word') = <<B(0) * 256 + B(1), B(2) * 256 + B(3)>>
              /\ B(0) < 128 =>
                    bits_to_int(ret_word') =
                        B(0) * 16777216 + B(1) * 65536 + B(2) * 256 + B(3)
      ]_vars

\* The word AA 01 80 FF has been read after a first byte.
C13_Witness ==
    /\ outcome = "returned"
    /\ pos = 5
    /\ SubSeq(bitfile, 2, 5) = <<170, 1, 128, 255>>
    /\ ret_word # <<>>


---------------------------------------------------------------------------
(* The packet scan: payloads and header positions. *)

\* C15: an iteration that reads, as its header, a Type-1 word (top bits
\* 001) of length L > 0 in a file that holds the L words after it moves the
\* cursor L + 1 words on, so that the next word read as a header is the
\* one at distance L + 1; it records no other header position, leaves the
\* pending flag unset and returns nothing.
C15_Type1PayloadIsOpaque ==
    [][ LET L == Length11Of(BytesAt(pos))
        IN  (/\ pc = "scan"
             /\ pos + 4 <= Len(bitfile)
             /\ TopBits(BytesAt(pos)) = 1
             /\ L > 0
             /\ pos + 4 * (L + 1) <= Len(bitfile)) =>
                /\ pos' = pos + 4 * (L + 1)
                /\ hdrs' = Append(hdrs, pos)
                /\ type_2_fdri_write' = FALSE
                /\ pc' = "scan"
                /\ packet_2_length' = None
      ]_vars

\* The payload word of a Type-1 packet of length 1 was the FDRI write
\* header 0x30004000, the word after it a Type-2 header: both have been
\* passed without a return.
C15_Witness ==
    /\ pc = "scan"
    /\ hdrs = <<4, 12>>
    /\ BytesAt(4) = <<48, 0, 64, 1>>
    /\ BytesAt(8) = <<48, 0, 64, 0>>
    /\ BytesAt(12) = <<80, 0, 0, 202>>
    /\ pos = 16 /\ ~type_2_fdri_write /\ packet_2_length = None


\* C16: the words read as headers are the header positions of the file, in
\* order; while the scan runs the pending flag is set exactly when the last
\* header read was an FDRI write header of length 0; and a scan of a file
\* with the idiom at its header positions ends by returning at the first
\* such pair, with bits [26:0] of the pair's Type-2 word.
C16_ScanFindsFirstIdiom ==
    /\ Len(hdrs) <= Len(HeaderPositions)
    /\ hdrs = SubSeq(HeaderPositions, 1, Len(hdrs))
    /\ pc = "scan" =>
          (type_2_fdri_write <=>
              (hdrs # <<>> /\ IsFdriSetupAt(hdrs[Len(hdrs)])))
    /\ (pc = "done" /\ HasIdiom) =>
          LET first == CHOOSE k \in IdiomIndexes : \A j \in IdiomIndexes : k <= j
          IN  /\ outcome = "returned"
              /\ Len(hdrs) = first + 1
              /\ packet_2_length = Low27(BytesAt(HeaderPositions[first] + 4))

\* The scan has returned the length of the Type-2 word that follows the
\* FDRI write header, after a Type-2 word read while the flag was not set.
C16_Witness ==
    /\ outcome = "returned"
    /\ hdrs = <<4, 8, 12>>
    /\ BytesAt(4) = <<68, 0, 1, 0>>
    /\ BytesAt(8) = <<48, 0, 64, 0>>
    /\ packet_2_length = 202


---------------------------------------------------------------------------
(* get_frame_list: the frames of one frame_count line.                    *)

\* The number held by bits [lo + width - 1 : lo] of an address.
AddrField(addr, lo, width) ==
    bits_to_int([i \in 1..32 |-> IF i <= width THEN addr[i + lo] ELSE 0])

\* The counts the frame_count lines of a descriptor declare, added up.
DeclaredCount(line) ==
    IF \E n \in 0..WideCount : line = CountLine(9, n)
    THEN CHOOSE n \in 0..WideCount : line = CountLine(9, n)
    ELSE 0
RECURSIVE SumOfCounts(_, _, _)
SumOfCounts(d, lo, hi) ==
    IF lo > hi THEN 0
    ELSE IF lo = hi THEN DeclaredCount(d[lo])
    ELSE LET mid == (lo + hi) \div 2
         IN  SumOfCounts(d, lo, mid) + SumOfCounts(d, mid + 1, hi)

\* The minor index of each frame of a count line, and its low seven bits.
MinorItself == [m \in 0..WideCount |-> m]
MinorLow7 == [m \in 0..WideCount |-> m % 2^7]

\* The entries a frame_count line of count n has appended: n of them after
\* the entries there were, the k-th with minor of its bits [6:0], the bits
\* above as the accumulator had them, and the hex string of its own bits.
LeafAppended(n, minor) ==
    /\ Len(frames') = Len(frames) + n
    /\ SubSeq(frames', 1, Len(frames)) = frames
    /\ \A k \in 1..n :
          LET e == frames'[Len(frames) + k]
          IN  /\ AddrField(e[2], 0, 7) = minor[k - 1]
              /\ \A i \in 8..32 : e[2][i] = curr_addr[i]
              /\ Len(e[1]) = 8
              /\ \A i \in 1..8 : e[1][i] \in (48..57) \cup (97..102)
              /\ HexValue(e[1]) = bits_to_int(e[2])

AtCountLine(n) ==
    /\ pc = "lines"
    /\ curr_scope = FRAME_COUNT_SCOPE
    /\ descriptor[line_no + 1] = CountLine(9, n)

\* C17: a frame_count line of count N appends N entries, entry k with bits
\* [6:0] equal to minor index k (0..N-1) and the half, row, block type and
\* column bits of the accumulator, with the 8-digit hex string of its own
\* bits, and changes no earlier entry; the returned list is as long as the
\* sum of the declared counts.
C17_LeafAppendsItsFrames ==
    /\ [][ \A n \in 0..WideCount :
              AtCountLine(n) => LeafAppended(n, MinorItself) ]_vars
    /\ [](FrameListReturned =>
              Len(frames) = SumOfCounts(descriptor, 1, Len(descriptor)))

\* What the code does for every count: bits [6:0] of entry k are the low
\* seven bits of k.
LeafAppendsFramesLow7 ==
    /\ [][ \A n \in 0..WideCount :
              AtCountLine(n) => LeafAppended(n, MinorLow7) ]_vars
    /\ [](FrameListReturned =>
              Len(frames) = SumOfCounts(descriptor, 1, Len(descriptor)))

\* For counts the seven bits can hold, C17 as stated.
LeafAppendsFramesWhenCountFits ==
    [][ \A n \in 0..2^7 :
           AtCountLine(n) => LeafAppended(n, MinorItself) ]_vars

\* A second column's frame_count line has been read in a row other than 0:
\* four entries, the last two with minor 0 and 1 under the new column bits.
LeafAppendedSecondColumn ==
    /\ pc = "lines" /\ Len(frames) = 4
    /\ AddrField(frames[3][2], 0, 7) = 0 /\ AddrField(frames[4][2], 0, 7) = 1
    /\ AddrField(frames[4][2], 7, 10) = 2
    /\ AddrField(frames[1][2], 7, 10) = 10
    /\ AddrField(frames[4][2], 17, 5) = 1


---------------------------------------------------------------------------
(* parse_config_packet: the words the walk reads.                         *)

\* C18 as claimed: for every multiple of 101 the run reads
\* 101 * (N + 2R) words whatever the length and the stream; the words
\* left are compared only after the walk, so a length below
\* 101 * (N + 2R + 2) ends in the exit of lines 329-330 with every word
\* of the walk read and less than 2 * FRAME_LENGTH remaining.
C18_AsClaimed ==
    config_packet_length % FRAME_LENGTH = 0 =>
        /\ pc = "done" => words_read = WalkWords
        /\ pc = "check" =>
              /\ outcome = "running"
              /\ words_read = WalkWords
              /\ frames_remaining = config_packet_length - WalkWords
        /\ (pc = "done"
            /\ config_packet_length < WalkWords + 2 * FRAME_LENGTH) =>
              /\ outcome = "SystemExit_incomplete"
              /\ frames_remaining < 2 * FRAME_LENGTH
              /\ words_read > config_packet_length - 2 * FRAME_LENGTH

\* C18, amended: for a multiple of 101 the run reads 101 * (N + 2R) words
\* when the stream holds them, and the whole stream before it fails in
\* parse_word when it does not, whatever the length and the contents.  The
\* words left are compared only after the walk: at the check every word of
\* the walk has been read, and for a frame list that is not empty, a
\* stream that holds the walk and a length below 101 * (N + 2R + 2) the
\* run ends in the exit of lines 329-330 with less than 2 * FRAME_LENGTH
\* remaining.
C18_WalkIgnoresDeclaredLength ==
    config_packet_length % FRAME_LENGTH = 0 =>
        /\ words_read <= WalkWords
        /\ pc = "done" =>
              /\ words_read = IF payload.size < WalkWords
                              THEN payload.size ELSE WalkWords
              /\ outcome = "TypeError" <=> payload.size < WalkWords
        /\ pc = "check" =>
              /\ outcome = "running"
              /\ words_read = WalkWords
              /\ frames_remaining = config_packet_length - WalkWords
        /\ (pc = "done" /\ frames # <<>> /\ payload.size >= WalkWords
            /\ config_packet_length < WalkWords + 2 * FRAME_LENGTH) =>
              /\ outcome = "SystemExit_incomplete"
              /\ frames_remaining = config_packet_length - WalkWords
              /\ frames_remaining < 2 * FRAME_LENGTH
              /\ words_read > config_packet_length - 2 * FRAME_LENGTH

\* The walk over two frames in different rows has read its 404 words, with
\* set bits among them, for a declared length of 101: 303 words more than
\* were declared.
C18_Witness ==
    /\ pc = "done" /\ outcome = "SystemExit_incomplete"
    /\ Len(frames) = 2 /\ RowDiffers(2)
    /\ config_packet_length = FRAME_LENGTH
    /\ words_read = 4 * FRAME_LENGTH
    /\ frames_remaining = -(3 * FRAME_LENGTH)
    /\ bits # <<>>


---------------------------------------------------------------------------
(* ll_sample_bits.py: write_bit_list, lines 60-92.  A bit of the .ll file *)
(* is the list [frame_addr, word_offset, bit_offset] of three strings     *)
(* that parse_ll_file builds at line 54.                                   *)

MaxBits == 3          \* longest list ll_bits given to write_bit_list

\* The bits the lists are made of.
SampleBits ==
    { <<<<48, 48, 52, 48, 48, 48, 48, 48>>, <<48, 48, 49>>, <<48, 49>>>>,
      <<<<48, 48, 52, 48, 48, 48, 48, 48>>, <<48, 53, 48>>, <<49, 50>>>>,
      <<<<48, 48, 48, 50, 48, 53, 49, 102>>, <<49, 48, 48>>, <<51, 49>>>> }

\* num_bits: int() of the argument, so any integer; here from one below 0
\* to one more than the longest list.
SampleCounts == -1..(MaxBits + 1)

\* json.dumps(obj, indent=4) of a list whose items are already dumped, at
\* nesting depth: "[]" for the empty list, else one item per line.
RECURSIVE JoinItems(_, _)
JoinItems(items, sep) ==
    IF items = <<>> THEN <<>>
    ELSE IF Len(items) = 1 THEN items[1]
    ELSE items[1] \o sep \o JoinItems(Tail(items), sep)
JsonList(items, depth) ==
    IF items = <<>> THEN <<91, 93>>
    ELSE <<91, 10>> \o Indent(depth + 1)
         \o JoinItems(items, <<44, 10>> \o Indent(depth + 1))
         \o <<10>> \o Indent(depth) \o <<93>>
JsonString(s) == <<34>> \o s \o <<34>>

\* Line 84: json.dumps(fault_bits, indent=4); an entry is [rand_bit].
json_dumps(fb) ==
    JsonList([k \in 1..Len(fb) |->
        JsonList([e \in 1..Len(fb[k]) |->
            JsonList([f \in 1..Len(fb[k][e]) |-> JsonString(fb[k][e][f])], 2)],
          1)], 0)

\* A bug Remove could have: every element equal to x is removed.
Remove_AllEqual(s, x) == SelectSeq(s, LAMBDA y : y # x)

\* Line 82: list.remove(x) removes the first element equal to x.
Remove(s, x) ==
    LET first == SetMin({ i \in 1..Len(s) : s[i] = x })
    IN  SubSeq(s, 1, first - 1) \o SubSeq(s, first + 1, Len(s))

\* Lines 68-73: the empty result and the clamp of num_bits.
SampleEntry ==
    /\ pc = "sampler"
    /\ fault_bits' = <<>>
    /\ num_bits' = IF num_bits > Len(ll_bits) THEN Len(ll_bits) ELSE num_bits
    /\ pc' = "sample"
    /\ UNCHANGED <<outcome, ll_bits, ll_input, num_arg, bits_f, wordVars,
                   findVars, frameVars, parseVars>>

\* Lines 76-82: one turn of the loop.  random.choice raises IndexError on
\* an empty list and returns any of its elements otherwise.
SampleStep ==
    /\ pc = "sample"
    /\ Len(fault_bits) < num_bits
    /\ IF ll_bits = <<>>
       THEN Fail("IndexError") /\ UNCHANGED <<fault_bits, ll_bits>>
       ELSE \E i \in 1..Len(ll_bits) :
               LET rand_bit == ll_bits[i]
               IN  /\ fault_bits' = Append(fault_bits, <<rand_bit>>)
                   /\ ll_bits' = Remove(ll_bits, rand_bit)
                   /\ UNCHANGED <<pc, outcome>>
    /\ UNCHANGED <<ll_input, num_arg, num_bits, bits_f, wordVars,
                   findVars, frameVars, parseVars>>

\* Lines 84-92 once the loop has ended: the list is written as JSON.
WriteFaultBits ==
    /\ pc = "sample"
    /\ ~(Len(fault_bits) < num_bits)
    /\ bits_f' = json_dumps(fault_bits)
    /\ pc' = "done"
    /\ outcome' = "returned"
    /\ UNCHANGED <<ll_bits, ll_input, num_arg, num_bits, fault_bits, wordVars,
                   findVars, frameVars, parseVars>>

InitSample ==
    /\ pc = "sampler" /\ outcome = "running"
    /\ ll_input \in BoundedSeq(SampleBits, MaxBits)
    /\ ll_bits = ll_input
    /\ num_arg \in SampleCounts
    /\ num_bits = num_arg
    /\ fault_bits = <<>> /\ bits_f = None
    /\ ret_word = <<>>
    /\ IdleFind /\ IdleFrames /\ IdleParse

NextSample ==
    \/ SampleEntry
    \/ SampleStep
    \/ WriteFaultBits

\* The function runs on until it returns or raises.
SpecSample == InitSample /\ [][NextSample]_vars /\ WF_vars(NextSample)

\* The position in the list given of the element the k-th turn removed:
\* remove() takes the first element left that equals the one sampled, which
\* is the m-th such element of the list given when m - 1 were taken before.
SampledPosition(k) ==
    LET x    == fault_bits[k][1]
        m    == Cardinality({ j \in 1..k : fault_bits[j][1] = x })
        same == { i \in 1..Len(ll_input) : ll_input[i] = x }
        at   == { i \in same : Cardinality({ j \in same : j <= i }) = m }
    IN  IF at = {} THEN 0 ELSE SetMin(at)
SampledPositions == { SampledPosition(k) : k \in 1..Len(fault_bits) }

\* The list given, less the positions sampled.
NotSampled ==
    LET rest == SortedSeqOf((1..Len(ll_input)) \ SampledPositions)
    IN  [i \in 1..Len(rest) |-> ll_input[rest[i]]]

\* What every state of a run keeps: each turn has taken one position of
\* the list given, no position twice, and ll_bits is the list given less
\* those positions.
SamplerConserves ==
    /\ pc \in {"sampler", "sample", "done"}
    /\ 0 \notin SampledPositions
    /\ Cardinality(SampledPositions) = Len(fault_bits)
    /\ ll_bits = NotSampled
    /\ Len(ll_bits) = Len(ll_input) - Len(fault_bits)

SmallerOf(a, b) == IF a < b THEN a ELSE b

\* C19 as claimed: write_bit_list returns for every list and every
\* num_bits, with exactly min(num_bits, len(ll_bits)) entries sampled and
\* written; each turn takes one element of ll_bits, no position twice, and
\* the caller's list is shorter by the number of entries.
C19_AsClaimed ==
    /\ <>(pc = "done")
    /\ [](SamplerConserves)
    /\ [](pc = "done" =>
            /\ outcome = "returned"
            /\ Len(fault_bits) = SmallerOf(num_arg, Len(ll_input))
            /\ bits_f = json_dumps(fault_bits))

\* C19, amended: the number of entries is min(num_bits, len(ll_bits)), and
\* 0 when num_bits is negative.
C19_SamplerTerminates ==
    /\ <>(pc = "done")
    /\ [](SamplerConserves)
    /\ [](pc = "done" =>
            /\ outcome = "returned"
            /\ Len(fault_bits) =
                  IF num_arg < 0 THEN 0
                  ELSE SmallerOf(num_arg, Len(ll_input))
            /\ bits_f = json_dumps(fault_bits))

\* Two of three bits have been sampled from a list that holds one bit
\* twice: both entries are that bit, and the other bit is left.
C19_Witness ==
    /\ pc = "done" /\ outcome = "returned"
    /\ Len(ll_input) = 3 /\ ll_input[1] = ll_input[3] /\ ll_input[1] # ll_input[2]
    /\ num_arg = 2
    /\ fault_bits = << <<ll_input[1]>>, <<ll_input[1]>> >>
    /\ ll_bits = << ll_input[2] >>

\* A call that asked for more bits than the list holds has sampled them all.
SamplerClampedWitness ==
    /\ pc = "done" /\ num_arg = MaxBits + 1 /\ Len(ll_input) = MaxBits - 1
    /\ num_bits = MaxBits - 1 /\ ll_bits = <<>> /\ Len(fault_bits) = MaxBits - 1


===========================================================================
